---- MODULE Spec2Model ----
(***************************************************************************)
(* A model of Common/vtkVector.h: the fixed-size vector vtkVector<T, Size>, *)
(* its 2D/3D layers vtkVector2<T> and vtkVector3<T>, and the operations on  *)
(* them.                                                                    *)
(*                                                                          *)
(* Two element types are modelled.                                          *)
(*   T = "int"   a two's-complement integer of Width bits (the int of      *)
(*               vtkVector2i/vtkVector3i, scaled from 32 bits).  Signed      *)
(*               arithmetic that leaves the range wraps modulo 2^Width.     *)
(*   T = "float" a binary floating-point format of MantBits significand     *)
(*               bits (the float of vtkVector2f/vtkVector3f, scaled from    *)
(*               24 bits), with round-to-nearest-even, gradual underflow,   *)
(*               overflow to infinity, and NaN.  A finite value is the      *)
(*               record [c |-> "fin", m |-> k] standing for k / Unit.       *)
(*               The sign of zero is not modelled: no operation of the      *)
(*               header divides by a component.                             *)
(* The double results of Norm(), fabs() and 1.0 / norm, and the components  *)
(* of the double vectors Cast<TR>() reads and returns, are exact reals:     *)
(* double has more than twice the precision of either element type, so the  *)
(* conversion T -> double is exact and the later conversion double -> T     *)
(* sees the correctly rounded value.                                        *)
(***************************************************************************)
EXTENDS Integers, Sequences, FiniteSets, TLC

VARIABLES
  T,        \* the element type of the vectors: "int" or "float" ("double" too
            \* under SpecCast)
  Size,     \* the template parameter Size of the vectors
  NDEBUG,   \* TRUE when the build defines NDEBUG (assert compiles to nothing)
  Data,     \* this->Data of the receiver: a function 0..Size-1 -> T
  other,    \* the Data of the vector passed as `other`
  last,     \* the last call made: its name, arguments and returned value
  aborted   \* TRUE once an assertion has failed (the process has aborted)

vars == <<T, Size, NDEBUG, Data, other, last, aborted>>

(***************************************************************************)
(* Bounds of the model.                                                     *)
(***************************************************************************)
Width == 6       \* bits of the integer element type
MantBits == 3    \* significand bits of the floating element type
FracBits == 3    \* the smallest positive float is 2^-FracBits
MaxExp == 6      \* the largest float is (2^MantBits - 1) * 2^(MaxExp - FracBits)
MaxSize == 3     \* the largest Size of a generic vtkVector<T, Size>

Abs(x) == IF x < 0 THEN -x ELSE x

(***************************************************************************)
(* The integer element type.                                                *)
(***************************************************************************)
IntMin == -(2^(Width - 1))
IntMax == 2^(Width - 1) - 1

\* An integer result brought back into Width bits.
WrapInt(x) == ((x - IntMin) % (2^Width)) + IntMin

(***************************************************************************)
(* The floating element type.                                               *)
(***************************************************************************)
Unit == 2^FracBits
MaxMant == (2^MantBits - 1) * 2^MaxExp

Fin(k) == [c |-> "fin", m |-> k]
FInf(s) == [c |-> "inf", m |-> s]
FNaN == [c |-> "nan", m |-> 0]

Sign(x) == IF x < 0 THEN -1 ELSE 1

\* The exponent e (0..MaxExp) of the binade that holds a / den: the smallest e
\* with a / den < 2^(MantBits + e).
RECURSIVE ExpOf(_, _, _)
ExpOf(a, den, e) ==
  IF e >= MaxExp \/ a < (2^(MantBits + e)) * den THEN e ELSE ExpOf(a, den, e + 1)

\* num / den (den > 0, in units of 1 / Unit) rounded to the nearest float, ties
\* to the even significand, infinity beyond the largest float.
RoundF(num, den) ==
  LET a == Abs(num)
      e == ExpOf(a, den, 0)
      ulp == (2^e) * den
      q == a \div ulp
      rem == a - q * ulp
      up == IF 2 * rem > ulp THEN 1 ELSE IF 2 * rem = ulp THEN q % 2 ELSE 0
      r == (q + up) * (2^e)
  IN IF r > MaxMant THEN FInf(Sign(num)) ELSE Fin(Sign(num) * r)

NegF(x) ==
  IF x.c = "nan" THEN FNaN ELSE [c |-> x.c, m |-> -(x.m)]

MulF(x, y) ==
  IF x.c = "nan" \/ y.c = "nan" THEN FNaN
  ELSE IF x.c = "inf" \/ y.c = "inf"
       THEN IF x.m = 0 \/ y.m = 0 THEN FNaN ELSE FInf(Sign(x.m) * Sign(y.m))
       ELSE RoundF(x.m * y.m, Unit)

AddF(x, y) ==
  IF x.c = "nan" \/ y.c = "nan" THEN FNaN
  ELSE IF x.c = "inf" /\ y.c = "inf" THEN (IF x.m = y.m THEN x ELSE FNaN)
  ELSE IF x.c = "inf" THEN x
  ELSE IF y.c = "inf" THEN y
  ELSE RoundF(x.m + y.m, 1)

SubF(x, y) == AddF(x, NegF(y))

(***************************************************************************)
(* Arithmetic of the element type T, as the C++ operators *, +, - compute   *)
(* it on two operands of type T.                                            *)
(***************************************************************************)
Zero(t) == IF t = "int" THEN 0 ELSE Fin(0)
Mul(t, x, y) == IF t = "int" THEN WrapInt(x * y) ELSE MulF(x, y)
Add(t, x, y) == IF t = "int" THEN WrapInt(x + y) ELSE AddF(x, y)
Sub(t, x, y) == IF t = "int" THEN WrapInt(x - y) ELSE SubF(x, y)

(***************************************************************************)
(* double: an exact real.  [c |-> "fin"] is n / d, [c |-> "root"] is the    *)
(* square root of n / d (d > 0, n >= 0), [c |-> "inf"] is n * infinity.     *)
(***************************************************************************)
DFin(n, d) == [c |-> "fin", n |-> n, d |-> d]
DRoot(n, d) == [c |-> "root", n |-> n, d |-> d]
DInf(s) == [c |-> "inf", n |-> s, d |-> 1]
DNaN == [c |-> "nan", n |-> 0, d |-> 1]

\* static_cast<double>(x) of a value x of type T: exact.
ToDouble(t, x) ==
  IF t = "int" THEN DFin(x, 1)
  ELSE IF x.c = "fin" THEN DFin(x.m, Unit)
  ELSE IF x.c = "inf" THEN DInf(x.m)
  ELSE DNaN

\* sqrt(x) of <cmath>, of a double that came from a T.
SqrtD(x) ==
  IF x.c = "nan" THEN DNaN
  ELSE IF x.c = "inf" THEN (IF x.n > 0 THEN x ELSE DNaN)
  ELSE IF x.n < 0 THEN DNaN
  ELSE DRoot(x.n, x.d)

\* fabs(x) of <cmath>, of a double that came from a T.
Fabs(x) == IF x.c = "nan" THEN DNaN ELSE [c |-> x.c, n |-> Abs(x.n), d |-> x.d]

\* x >= y on doubles that came from a T: false when either is NaN.
GeD(x, y) ==
  IF x.c = "nan" \/ y.c = "nan" THEN FALSE
  ELSE IF x.c = "inf" THEN x.n > 0 \/ (y.c = "inf" /\ y.n < 0)
  ELSE IF y.c = "inf" THEN y.n < 0
  ELSE x.n * y.d >= y.n * x.d

\* 1.0 / x.
DivOne(x) ==
  IF x.c = "nan" THEN DNaN
  ELSE IF x.c = "inf" THEN DFin(0, 1)
  ELSE IF x.n = 0 THEN DInf(1)
  ELSE IF x.c = "root" THEN DRoot(x.d, x.n)
  ELSE DFin(Sign(x.n) * x.d, Abs(x.n))

\* What a double outside the range of int converts to.  The conversion is
\* undefined: x86 (cvttsd2si) gives the most negative int, ARM saturates (NaN
\* to 0, +infinity to the largest int).
IndefiniteInt == {IntMin, 0, IntMax}

\* The significands k >= 0 of the finite floats k / Unit.
FloatMants ==
  {k \in 0..MaxMant : k % (2^ExpOf(k, 1, 0)) = 0}

\* The square root of n / d rounded to the nearest float.
RoundSqrtF(n, d) ==
  LET x == n * Unit * Unit      \* the root, in units of 1 / Unit, squared, times d
      lo == CHOOSE r \in FloatMants :
              /\ r * r * d <= x
              /\ \A s \in FloatMants : s * s * d <= x => s <= r
      above == {r \in FloatMants : r > lo}
      hi == IF above = {} THEN MaxMant + 2^MaxExp
            ELSE CHOOSE r \in above : \A s \in above : r <= s
      r == IF 4 * x < (lo + hi) * (lo + hi) * d THEN lo ELSE hi
  IN IF r > MaxMant THEN FInf(1) ELSE Fin(r)

\* The values `const T y(x)` can give y, for a double x: truncation toward zero
\* for int (undefined outside the range of int), rounding to nearest for float.
FromDouble(t, x) ==
  IF t = "int"
  THEN IF x.c = "fin"
       THEN LET k == Sign(x.n) * (Abs(x.n) \div x.d)
            IN IF k >= IntMin /\ k <= IntMax THEN {k} ELSE IndefiniteInt
       ELSE IF x.c = "root"
       THEN LET ks == {k \in 0..IntMax :
                         k * k * x.d <= x.n /\ (k + 1) * (k + 1) * x.d > x.n}
            IN IF ks = {} THEN IndefiniteInt ELSE ks
       ELSE IndefiniteInt
  ELSE IF x.c = "fin" THEN {RoundF(x.n * Unit, x.d)}
       ELSE IF x.c = "root" THEN {RoundSqrtF(x.n, x.d)}
       ELSE IF x.c = "inf" THEN {FInf(x.n)}
       ELSE {FNaN}

(***************************************************************************)
(* vtkVector<T, Size>.  A vector is its Data: a function 0..Size-1 -> T.    *)
(***************************************************************************)
GetSize(v) == Cardinality(DOMAIN v)

\* GetData(): the address of Data, that is the buffer holding its Size values.
GetData(v) == v

\* A constructor that leaves Data as it finds the memory.
vtkVectorUninitialized(t, n) ==
  [i \in 0..(n - 1) |-> IF t = "int" THEN 1 ELSE Fin(Unit)]

\* vtkVector(): every component 0.
vtkVector(t, n) == [i \in 0..(n - 1) |-> Zero(t)]

\* A constructor that copies the buffer from its last value to its first.
vtkVectorInitReversed(n, init) == [i \in 0..(n - 1) |-> init[(n - 1) - i]]

\* vtkVector(const T* init): the first Size values of the buffer, in order.
vtkVectorInit(n, init) == [i \in 0..(n - 1) |-> init[i]]

RECURSIVE SquaredNormLoop(_, _, _, _)
SquaredNormLoop(t, v, i, result) ==
  IF i < GetSize(v)
  THEN SquaredNormLoop(t, v, i + 1, Add(t, result, Mul(t, v[i], v[i])))
  ELSE result

SquaredNorm(t, v) == SquaredNormLoop(t, v, 0, Zero(t))

Norm(t, v) == SqrtD(ToDouble(t, SquaredNorm(t, v)))

\* Normalize() taking the reciprocal of the double norm, where the code takes
\* that of the norm already converted to T.
NormalizeDoubleNorm(t, v) ==
  UNION {
    { [ret |-> norm, Data |-> [i \in DOMAIN v |-> Mul(t, v[i], inv)]] :
        inv \in FromDouble(t, DivOne(Norm(t, v))) } :
    norm \in FromDouble(t, Norm(t, v)) }

\* Normalize(): the vectors it can leave in Data, each with the value returned.
Normalize(t, v) ==
  UNION {
    { [ret |-> norm, Data |-> [i \in DOMAIN v |-> Mul(t, v[i], inv)]] :
        inv \in FromDouble(t, DivOne(ToDouble(t, norm))) } :
    norm \in FromDouble(t, Norm(t, v)) }

\* Normalized() that returns the copy without normalizing it.
NormalizedCopyOnly(t, v) == {[i \in DOMAIN v |-> v[i]]}

\* Normalized(): a copy of *this, normalized; the vectors it can return.
Normalized(t, v) ==
  LET temp == [i \in DOMAIN v |-> v[i]]
  IN {r.Data : r \in Normalize(t, temp)}

RECURSIVE DotLoop(_, _, _, _, _)
DotLoop(t, v, o, i, result) ==
  IF i < GetSize(v)
  THEN DotLoop(t, v, o, i + 1, Add(t, result, Mul(t, v[i], o[i])))
  ELSE result

\* Dot() assigning each product to result (=) where the code adds it (+=).
DotLastProduct(t, v, o) == Mul(t, v[GetSize(v) - 1], o[GetSize(v) - 1])

Dot(t, v, o) == DotLoop(t, v, o, 0, Zero(t))

RECURSIVE CompareLoop(_, _, _, _, _)
CompareLoop(t, v, o, tol, i) ==
  IF i < GetSize(v)
  THEN IF GeD(Fabs(ToDouble(t, Sub(t, v[i], o[i]))), ToDouble(t, tol))
       THEN FALSE
       ELSE CompareLoop(t, v, o, tol, i + 1)
  ELSE TRUE

Compare(t, v, o, tol) ==
  IF GetSize(v) # GetSize(o) THEN FALSE ELSE CompareLoop(t, v, o, tol, 0)

\* The element types Cast<TR>() converts between: those of the vectors, and
\* double (vtkVector2d, vtkVector3d), whose values are the exact reals above.
CastTypes == {"int", "float", "double"}

\* The 0 of a default-constructed vtkVector<TR, Size>.
ZeroOf(tr) == IF tr = "double" THEN DFin(0, 1) ELSE Zero(tr)

\* The values static_cast<TR>(x) can give, for a value x of type t: x itself
\* when TR is t, the exact value when TR is double, and otherwise the
\* conversion of that exact value to TR (truncation toward zero for int,
\* undefined outside the range of int; rounding to nearest for float).
StaticCast(t, tr, x) ==
  IF t = tr THEN {x}
  ELSE IF tr = "double" THEN {ToDouble(t, x)}
  ELSE IF t = "double" THEN FromDouble(tr, x)
  ELSE FromDouble(tr, ToDouble(t, x))

\* Cast<TR>() whose loop starts at index 1: element 0 stays the 0 of the
\* default-constructed result.
CastFromIndexOne(t, tr, v) ==
  LET vals == UNION {StaticCast(t, tr, v[i]) : i \in DOMAIN v} \cup {ZeroOf(tr)}
  IN {r \in [DOMAIN v -> vals] :
        /\ r[0] = ZeroOf(tr)
        /\ \A i \in DOMAIN v : i > 0 => r[i] \in StaticCast(t, tr, v[i])}

\* Cast<TR>(): the vectors it can return, each a default-constructed
\* vtkVector<TR, Size> with every element i overwritten by
\* static_cast<TR>(Data[i]).
Cast(t, tr, v) ==
  LET vals == UNION {StaticCast(t, tr, v[i]) : i \in DOMAIN v} \cup {ZeroOf(tr)}
  IN {r \in [DOMAIN v -> vals] :
        \A i \in DOMAIN v : r[i] \in StaticCast(t, tr, v[i])}

(***************************************************************************)
(* vtkVector2<T> and vtkVector3<T>.                                         *)
(***************************************************************************)
\* The value of parameter k (1, 2, 3) of a constructor called with the
\* arguments args: the default 0 when the argument is omitted.
Param(t, args, k) == IF k <= Len(args) THEN args[k] ELSE Zero(t)

vtkVector2(t, args) ==
  LET base == vtkVector(t, 2)
  IN [base EXCEPT ![0] = Param(t, args, 1), ![1] = Param(t, args, 2)]

vtkVector3(t, args) ==
  LET base == vtkVector(t, 3)
  IN [base EXCEPT ![0] = Param(t, args, 1), ![1] = Param(t, args, 2),
                  ![2] = Param(t, args, 3)]

SetX(v, x) == [v EXCEPT ![0] = x]
\* SetY writing the element SetX writes.
SetYElement0(v, y) == [v EXCEPT ![0] = y]

SetY(v, y) == [v EXCEPT ![1] = y]
SetZ(v, z) == [v EXCEPT ![2] = z]
Set2(v, x, y) == [v EXCEPT ![0] = x, ![1] = y]
Set3(v, x, y, z) == [v EXCEPT ![0] = x, ![1] = y, ![2] = z]

GetX(v) == v[0]
X(v) == v[0]
GetY(v) == v[1]
Y(v) == v[1]
GetZ(v) == v[2]
Z(v) == v[2]

\* Cross() with the operands of its second component exchanged.
CrossSecondExchanged(t, v, o) ==
  LET res == vtkVector3(t, <<>>)
  IN [res EXCEPT
        ![0] = Sub(t, Mul(t, v[1], o[2]), Mul(t, v[2], o[1])),
        ![1] = Sub(t, Mul(t, v[0], o[2]), Mul(t, v[2], o[0])),
        ![2] = Sub(t, Mul(t, v[0], o[1]), Mul(t, v[1], o[0]))]

\* Cross() adding the products of its third component.
CrossThirdAdded(t, v, o) ==
  LET res == vtkVector3(t, <<>>)
  IN [res EXCEPT
        ![0] = Sub(t, Mul(t, v[1], o[2]), Mul(t, v[2], o[1])),
        ![1] = Sub(t, Mul(t, v[2], o[0]), Mul(t, v[0], o[2])),
        ![2] = Add(t, Mul(t, v[0], o[1]), Mul(t, v[1], o[0]))]

Cross(t, v, o) ==
  LET res == vtkVector3(t, <<>>)
  IN [res EXCEPT
        ![0] = Sub(t, Mul(t, v[1], o[2]), Mul(t, v[2], o[1])),
        ![1] = Sub(t, Mul(t, v[2], o[0]), Mul(t, v[0], o[2])),
        ![2] = Sub(t, Mul(t, v[0], o[1]), Mul(t, v[1], o[0]))]

(***************************************************************************)
(* The concrete vectors vtkVector2i/2f/2d and vtkVector3i/3f/3d.  Their      *)
(* Normalized() and Cross() call the one of the base class and construct    *)
(* the concrete type from GetData() of the vector that returns, through the *)
(* constructor from a buffer, which passes it on to that of vtkVector.      *)
(***************************************************************************)
\* vtkVectorNormalized(vectorType, type, size): the vectors it can return.
vtkVectorNormalized(t, v) ==
  {vtkVectorInit(GetSize(v), GetData(r)) : r \in Normalized(t, v)}

\* vtkVector3Cross(vectorType, type).
vtkVector3Cross(t, v, o) == vtkVectorInit(3, GetData(Cross(t, v, o)))

(***************************************************************************)
(* Element access.                                                          *)
(***************************************************************************)
\* operator[](i), for an index the caller keeps in 0..Size-1.
OperatorIndex(v, i) == v[i]

\* Values an out-of-bounds read of Data can give for type t.
Garbage(t) == IF t = "int" THEN {IntMin, 0, 1} ELSE {FNaN, Fin(0), Fin(Unit)}

\* operator()(i) without its assert.
OperatorCallNoAssert(t, ndebug, v, i) ==
  IF i >= 0 /\ i < GetSize(v) THEN {[abort |-> FALSE, ret |-> <<v[i]>>]}
  ELSE {[abort |-> FALSE, ret |-> <<x>>] : x \in Garbage(t)}

\* operator()(i): the outcomes of the call.  The assert aborts the process when
\* it is compiled in and fails; with NDEBUG it is compiled out, and the read
\* that follows is of whatever lies outside Data.
OperatorCall(t, ndebug, v, i) ==
  IF i >= 0 /\ i < GetSize(v) THEN {[abort |-> FALSE, ret |-> <<v[i]>>]}
  ELSE IF ~ndebug THEN {[abort |-> TRUE, ret |-> <<>>]}
  ELSE {[abort |-> FALSE, ret |-> <<x>>] : x \in Garbage(t)}

(***************************************************************************)
(* The calls, as actions on the receiver (Data) and the argument (other).   *)
(***************************************************************************)
Types == {"int", "float"}

\* Values the callers pass to constructors and setters.
SetVals(t) == IF t = "int" THEN {-1, 0, IntMax} ELSE {Fin(0), Fin(Unit), FNaN}

\* Argument lists of a constructor with n defaulted parameters.
ArgLists(t, n) == UNION {[1..k -> SetVals(t)] : k \in 0..n}

Call(op, arg, ret) == [op |-> op, arg |-> arg, ret |-> ret]

Frame == UNCHANGED <<T, Size, NDEBUG, other>>

DoConstruct ==
  /\ ~aborted
  /\ Data' = vtkVector(T, Size)
  /\ last' = Call("vtkVector", <<>>, <<>>)
  /\ UNCHANGED aborted /\ Frame

DoConstructInit ==
  /\ ~aborted
  /\ \E init \in [0..Size -> SetVals(T)] :
       /\ Data' = vtkVectorInit(Size, init)
       /\ last' = Call("vtkVector(init)", <<init>>, <<>>)
  /\ UNCHANGED aborted /\ Frame

DoConstruct2 ==
  /\ ~aborted /\ Size = 2
  /\ \E args \in ArgLists(T, 2) :
       /\ Data' = vtkVector2(T, args)
       /\ last' = Call("vtkVector2", args, <<>>)
  /\ UNCHANGED aborted /\ Frame

DoConstruct3 ==
  /\ ~aborted /\ Size = 3
  /\ \E args \in ArgLists(T, 3) :
       /\ Data' = vtkVector3(T, args)
       /\ last' = Call("vtkVector3", args, <<>>)
  /\ UNCHANGED aborted /\ Frame

DoGetSize ==
  /\ ~aborted
  /\ last' = Call("GetSize", <<>>, <<GetSize(Data)>>)
  /\ UNCHANGED <<Data, aborted>> /\ Frame

DoIndexRead ==
  /\ ~aborted
  /\ \E i \in 0..(Size - 1) : last' = Call("operator[]", <<i>>, <<OperatorIndex(Data, i)>>)
  /\ UNCHANGED <<Data, aborted>> /\ Frame

DoIndexWrite ==
  /\ ~aborted
  /\ \E i \in 0..(Size - 1), x \in SetVals(T) :
       /\ Data' = [Data EXCEPT ![i] = x]
       /\ last' = Call("operator[]=", <<i, x>>, <<>>)
  /\ UNCHANGED aborted /\ Frame

DoOperatorCall ==
  /\ ~aborted
  /\ \E i \in (-1)..Size :
       \E r \in OperatorCall(T, NDEBUG, Data, i) :
         /\ last' = Call("operator()", <<i>>, r.ret)
         /\ aborted' = r.abort
  /\ UNCHANGED Data /\ Frame

DoSet ==
  /\ ~aborted /\ Size \in {2, 3}
  /\ \E x \in SetVals(T), y \in SetVals(T), z \in SetVals(T) :
       IF Size = 2
       THEN /\ z = x
            /\ Data' = Set2(Data, x, y)
            /\ last' = Call("Set", <<x, y>>, <<>>)
       ELSE /\ Data' = Set3(Data, x, y, z)
            /\ last' = Call("Set", <<x, y, z>>, <<>>)
  /\ UNCHANGED aborted /\ Frame

DoSetX ==
  /\ ~aborted /\ Size \in {2, 3}
  /\ \E x \in SetVals(T) : Data' = SetX(Data, x) /\ last' = Call("SetX", <<x>>, <<>>)
  /\ UNCHANGED aborted /\ Frame

DoSetY ==
  /\ ~aborted /\ Size \in {2, 3}
  /\ \E y \in SetVals(T) : Data' = SetY(Data, y) /\ last' = Call("SetY", <<y>>, <<>>)
  /\ UNCHANGED aborted /\ Frame

DoSetZ ==
  /\ ~aborted /\ Size = 3
  /\ \E z \in SetVals(T) : Data' = SetZ(Data, z) /\ last' = Call("SetZ", <<z>>, <<>>)
  /\ UNCHANGED aborted /\ Frame

Getter(name, value) ==
  /\ last' = Call(name, <<>>, <<value>>)
  /\ UNCHANGED <<Data, aborted>> /\ Frame

DoGetX == ~aborted /\ Size \in {2, 3} /\ Getter("GetX", GetX(Data))
DoX == ~aborted /\ Size \in {2, 3} /\ Getter("X", X(Data))
DoGetY == ~aborted /\ Size \in {2, 3} /\ Getter("GetY", GetY(Data))
DoY == ~aborted /\ Size \in {2, 3} /\ Getter("Y", Y(Data))
DoGetZ == ~aborted /\ Size = 3 /\ Getter("GetZ", GetZ(Data))
DoZ == ~aborted /\ Size = 3 /\ Getter("Z", Z(Data))

(***************************************************************************)
(* Spec: construction and component access.  A vector of Size 2 or 3 is a   *)
(* vtkVector2<T> or vtkVector3<T>; any other Size is a plain vtkVector.     *)
(***************************************************************************)
Init ==
  /\ T \in Types
  /\ Size \in 1..MaxSize
  /\ NDEBUG \in BOOLEAN
  /\ Data = vtkVector(T, Size)
  /\ other = vtkVector(T, Size)
  /\ last = Call("vtkVector", <<>>, <<>>)
  /\ aborted = FALSE

Next ==
  \/ DoConstruct \/ DoConstructInit \/ DoConstruct2 \/ DoConstruct3
  \/ DoGetSize \/ DoIndexRead \/ DoIndexWrite \/ DoOperatorCall
  \/ DoSet \/ DoSetX \/ DoSetY \/ DoSetZ
  \/ DoGetX \/ DoX \/ DoGetY \/ DoY \/ DoGetZ \/ DoZ

Spec == Init /\ [][Next]_vars

(***************************************************************************)
(* Claims about construction and component access, checked under Spec.      *)
(***************************************************************************)
IsZero(x) == IF T = "int" THEN x = 0 ELSE x = Fin(0)

InBounds(i) == i >= 0 /\ i < Size

\* C8, as stated: operator()(i) returns Data[i] when 0 <= i < Size, fails with
\* an assertion (returning no value) for every other i, and never modifies a
\* component.
C8_AssertsOnEveryBadIndex ==
  [][last'.op = "operator()" =>
       /\ InBounds(last'.arg[1]) => ~aborted' /\ last'.ret = <<Data[last'.arg[1]]>>
       /\ ~InBounds(last'.arg[1]) => aborted' /\ last'.ret = <<>>
       /\ Data' = Data]_vars

\* C8, amended: operator()(i) returns Data[i] when 0 <= i < Size; in a build
\* that compiles the assert in (NDEBUG not defined) it fails with an assertion,
\* returning no value, for every other i; in no build does the call modify a
\* component.
C8_AssertsWhenCompiledIn ==
  [][last'.op = "operator()" =>
       /\ InBounds(last'.arg[1]) => ~aborted' /\ last'.ret = <<Data[last'.arg[1]]>>
       /\ ~InBounds(last'.arg[1]) /\ ~NDEBUG => aborted' /\ last'.ret = <<>>
       /\ Data' = Data]_vars

\* A call operator()(Size) has failed its assertion on a vector that holds a
\* component other than 0.
C8_Witness ==
  /\ last.op = "operator()" /\ last.arg = <<Size>> /\ aborted
  /\ \E i \in 0..(Size - 1) : ~IsZero(Data[i])

\* C9: a default-constructed vector has every component 0, the generic one and
\* the 2D/3D ones alike, and a 2D/3D vector constructed from (x, y[, z]) has 0
\* in the component of every omitted argument (and the argument in the others).
C9_DefaultIsZero ==
  /\ last.op = "vtkVector" => \A i \in 0..(Size - 1) : IsZero(Data[i])
  /\ last.op \in {"vtkVector2", "vtkVector3"} =>
       /\ GetSize(Data) = Size
       /\ \A k \in 1..Size :
            IF k <= Len(last.arg) THEN Data[k - 1] = last.arg[k]
            ELSE IsZero(Data[k - 1])

\* A vtkVector3 built from one argument, not 0: the components of y and z are 0.
C9_Witness ==
  /\ last.op = "vtkVector3" /\ Len(last.arg) = 1 /\ ~IsZero(Data[0])
  /\ IsZero(Data[1]) /\ IsZero(Data[2])

\* C10: after any sequence of Set, SetX, SetY, SetZ and indexed writes on a
\* 2D/3D vector, X() = GetX() = v[0], Y() = GetY() = v[1], Z() = GetZ() = v[2];
\* SetX(x) makes component 0 x and changes no other (SetY: 1, SetZ: 2); and
\* Set(x, y[, z]) gives the vector the per-component setters give, in any order.
C10_NamedAccess ==
  [][/\ Size \in {2, 3} =>
          /\ X(Data') = Data'[0] /\ GetX(Data') = Data'[0]
          /\ Y(Data') = Data'[1] /\ GetY(Data') = Data'[1]
     /\ Size = 3 => Z(Data') = Data'[2] /\ GetZ(Data') = Data'[2]
     /\ last'.op \in {"GetX", "X"} => last'.ret = <<Data'[0]>> /\ Data' = Data
     /\ last'.op \in {"GetY", "Y"} => last'.ret = <<Data'[1]>> /\ Data' = Data
     /\ last'.op \in {"GetZ", "Z"} => last'.ret = <<Data'[2]>> /\ Data' = Data
     /\ last'.op = "SetX" =>
          /\ Data'[0] = last'.arg[1]
          /\ \A j \in 0..(Size - 1) : j # 0 => Data'[j] = Data[j]
     /\ last'.op = "SetY" =>
          /\ Data'[1] = last'.arg[1]
          /\ \A j \in 0..(Size - 1) : j # 1 => Data'[j] = Data[j]
     /\ last'.op = "SetZ" =>
          /\ Data'[2] = last'.arg[1]
          /\ \A j \in 0..(Size - 1) : j # 2 => Data'[j] = Data[j]
     /\ last'.op = "Set" /\ Size = 2 =>
          LET x == last'.arg[1]
              y == last'.arg[2]
          IN /\ Data' = SetY(SetX(Data, x), y)
             /\ Data' = SetX(SetY(Data, y), x)
     /\ last'.op = "Set" /\ Size = 3 =>
          LET x == last'.arg[1]
              y == last'.arg[2]
              z == last'.arg[3]
          IN /\ Data' = SetZ(SetY(SetX(Data, x), y), z)
             /\ Data' = SetY(SetZ(SetX(Data, x), z), y)
             /\ Data' = SetZ(SetX(SetY(Data, y), x), z)
             /\ Data' = SetX(SetZ(SetY(Data, y), z), x)
             /\ Data' = SetY(SetX(SetZ(Data, z), x), y)
             /\ Data' = SetX(SetY(SetZ(Data, z), y), x)]_vars

\* SetY has written a value that differs from the x and z it left in place.
C10_Witness ==
  /\ Size = 3 /\ last.op = "SetY" /\ Data[1] = last.arg[1]
  /\ Data[0] # Data[1] /\ Data[2] # Data[1] /\ Data[0] # Data[2]

(***************************************************************************)
(* SpecNorm: the norm and normalization of one vector, constructed from a   *)
(* buffer of values of T.  No call here contains an assert.                 *)
(***************************************************************************)
\* The least int whose square is beyond the largest int (46341 for 32 bits).
SqrtOverflow ==
  CHOOSE k \in 1..IntMax : k * k > IntMax /\ (k - 1) * (k - 1) <= IntMax

NormVals(t) ==
  IF t = "int" THEN {IntMin, -1, 0, 1, 3, 4, SqrtOverflow, IntMax}
  ELSE {FNaN, Fin(-Unit), Fin(0), Fin(1), Fin(Unit), Fin(3 * Unit), Fin(4 * Unit),
        Fin(MaxMant)}

DoSquaredNorm ==
  /\ last' = Call("SquaredNorm", <<>>, <<SquaredNorm(T, Data)>>)
  /\ UNCHANGED <<Data, aborted>> /\ Frame

DoNorm ==
  /\ last' = Call("Norm", <<>>, <<Norm(T, Data)>>)
  /\ UNCHANGED <<Data, aborted>> /\ Frame

DoNormalize ==
  /\ \E r \in Normalize(T, Data) :
       /\ Data' = r.Data
       /\ last' = Call("Normalize", <<>>, <<r.ret>>)
  /\ UNCHANGED aborted /\ Frame

DoNormalized ==
  /\ \E r \in Normalized(T, Data) : last' = Call("Normalized", <<>>, <<r>>)
  /\ UNCHANGED <<Data, aborted>> /\ Frame

InitNorm ==
  /\ T \in Types
  /\ Size \in 1..MaxSize
  /\ NDEBUG = FALSE
  /\ Data \in [0..(Size - 1) -> NormVals(T)]
  /\ other = vtkVector(T, Size)
  /\ last = Call("vtkVector(init)", <<Data>>, <<>>)
  /\ aborted = FALSE

NextNorm == DoSquaredNorm \/ DoNorm \/ DoNormalize \/ DoNormalized

SpecNorm == InitNorm /\ [][NextNorm]_vars

(***************************************************************************)
(* Claims about Norm, Normalize and Normalized, checked under SpecNorm.     *)
(***************************************************************************)
\* The double x is a number greater than 0.
PositiveD(x) == (x.c \in {"fin", "root"} /\ x.n > 0) \/ (x.c = "inf" /\ x.n > 0)

\* The integer part of the square root of n (n >= 0).
FloorSqrt(n) == CHOOSE k \in 0..n : k * k <= n /\ (k + 1) * (k + 1) > n

\* The integer part of 1 / sqrt(n) (n > 0).
FloorRecipSqrt(n) == CHOOSE k \in 0..1 : k * k * n <= 1 /\ (k + 1) * (k + 1) * n > 1

\* The integer part of 1 / k (k > 0).
FloorRecip(k) == CHOOSE r \in 0..1 : r * k <= 1 /\ (r + 1) * k > 1

\* C2, as stated: for an integral T and Norm() > 0, Normalize() replaces every
\* v[i] by v[i] * r, with r the reciprocal of the double Norm() truncated to T,
\* and returns Norm() truncated to T.
C2_ScalesByTruncatedRecipOfNorm ==
  [][last'.op = "Normalize" /\ T = "int" /\ PositiveD(Norm(T, Data)) =>
       LET r == FloorRecipSqrt(Norm(T, Data).n)
       IN /\ \A i \in 0..(Size - 1) : Data'[i] = WrapInt(Data[i] * r)
          /\ last'.ret = <<FloorSqrt(Norm(T, Data).n)>>]_vars

\* C2, amended: for an integral T and Norm() > 0, Normalize() replaces every
\* v[i] by v[i] * r, with r the reciprocal of the norm already truncated to T
\* (1.0 / T(Norm())), itself truncated to T, and returns Norm() truncated to T.
C2_ScalesByTruncatedRecipOfTruncatedNorm ==
  [][last'.op = "Normalize" /\ T = "int" /\ PositiveD(Norm(T, Data)) =>
       LET r == FloorRecip(FloorSqrt(Norm(T, Data).n))
       IN /\ \A i \in 0..(Size - 1) : Data'[i] = WrapInt(Data[i] * r)
          /\ last'.ret = <<FloorSqrt(Norm(T, Data).n)>>]_vars

\* Normalize() has returned 1 for an int vector of norm sqrt(2) or more, and
\* left it as it was.
C2_Witness ==
  /\ T = "int" /\ Size >= 2 /\ last.op = "Normalize" /\ last.ret = <<1>>
  /\ Data[0] = 1 /\ Data[1] = 1

\* The exact sum of the squares of the components of v, as a double: the sum
\* over the integers for int, over the rationals for finite floats.
RECURSIVE SumSquares(_, _)
SumSquares(v, i) ==
  IF i < GetSize(v)
  THEN (IF T = "int" THEN v[i] * v[i] ELSE v[i].m * v[i].m) + SumSquares(v, i + 1)
  ELSE 0

ExactNorm(v) ==
  IF T = "int" THEN DRoot(SumSquares(v, 0), 1)
  ELSE IF \E i \in DOMAIN v : v[i].c = "nan" THEN DNaN
  ELSE IF \E i \in DOMAIN v : v[i].c = "inf" THEN DInf(1)
  ELSE DRoot(SumSquares(v, 0), Unit * Unit)

\* Two doubles are the same number.
SameD(x, y) ==
  /\ x.c = y.c
  /\ x.c \in {"fin", "root"} => x.n * y.d = y.n * x.d
  /\ x.c = "inf" => x.n = y.n

\* C3, as stated: Norm() is the square root of the sum of the v[i]^2, whatever
\* T is: no overflow, wrap-around or rounding of T affects it.
C3_NormIsExact ==
  last.op = "Norm" => SameD(last.ret[1], ExactNorm(Data))

\* C4: Normalized() leaves every component of v as it was, and returns a vector
\* with the components v.Normalize() gives v.
C4_NormalizedIsPure ==
  [][last'.op = "Normalized" =>
       /\ Data' = Data
       /\ \E r \in Normalize(T, Data) : last'.ret = <<r.Data>>]_vars

\* Normalized() has returned a vector that differs from its receiver, which
\* holds a component other than 0.
C4_Witness ==
  /\ last.op = "Normalized" /\ last.ret # <<Data>>
  /\ \E i \in 0..(Size - 1) : ~IsZero(Data[i])

(***************************************************************************)
(* SpecPair: the operations on two vectors of one type, each constructed    *)
(* from a buffer of values of T.  No call here contains an assert.          *)
(***************************************************************************)
PairVals(t) ==
  IF t = "int" THEN {IntMin, 0, 1, 2, IntMax}
  ELSE {FNaN, Fin(0), Fin(Unit), Fin((5 * Unit) \div 4), Fin(MaxMant)}

Tols(t) ==
  IF t = "int" THEN {0, 1, 2} ELSE {Fin(0), Fin(Unit), Fin(2 * Unit)}

DoDot ==
  /\ last' = Call("Dot", <<>>, <<Dot(T, Data, other)>>)
  /\ UNCHANGED <<Data, aborted>> /\ Frame

DoCompare ==
  /\ \E tol \in Tols(T) :
       last' = Call("Compare", <<tol>>, <<Compare(T, Data, other, tol)>>)
  /\ UNCHANGED <<Data, aborted>> /\ Frame

DoCross ==
  /\ Size = 3
  /\ last' = Call("Cross", <<>>, <<Cross(T, Data, other)>>)
  /\ UNCHANGED <<Data, aborted>> /\ Frame

InitPair ==
  /\ T \in Types
  /\ Size \in {2, 3}
  /\ NDEBUG = FALSE
  /\ Data \in [0..(Size - 1) -> PairVals(T)]
  /\ other \in [0..(Size - 1) -> PairVals(T)]
  /\ last = Call("vtkVector(init)", <<Data>>, <<>>)
  /\ aborted = FALSE

NextPair == DoDot \/ DoCompare \/ DoCross

SpecPair == InitPair /\ [][NextPair]_vars

(***************************************************************************)
(* Claims about Compare, Cross and Dot, checked under SpecPair.  Arithmetic *)
(* on components is the arithmetic of T; "the same value" is identity of    *)
(* values, NaN included.                                                    *)
(***************************************************************************)
\* x < y on doubles that came from a T: false when either is NaN.
LessD(x, y) ==
  IF x.c = "nan" \/ y.c = "nan" THEN FALSE
  ELSE IF x.c = "inf" THEN x.n < 0 /\ ~(y.c = "inf" /\ y.n < 0)
  ELSE IF y.c = "inf" THEN y.n > 0
  ELSE x.n * y.d < y.n * x.d

\* |x - y| < tol, the difference taken in T.
AbsDiffLess(x, y, tol) == LessD(Fabs(ToDouble(T, Sub(T, x, y))), ToDouble(T, tol))

\* C1, as stated: Compare(a, b, tol) is true if and only if |a[i] - b[i]| < tol
\* for every index i; so it is false whenever some component differs by tol or
\* more (or by no number at all).
C1_CompareIffAllWithinTol ==
  last.op = "Compare" =>
    last.ret = <<\A i \in 0..(Size - 1) : AbsDiffLess(Data[i], other[i], last.arg[1])>>

One == IF T = "int" THEN 1 ELSE Fin(Unit)

Vec3(x, y, z) == [i \in 0..2 |-> IF i = 0 THEN x ELSE IF i = 1 THEN y ELSE z]

\* x * y - z * w in T: for int the integer result brought into Width bits, for
\* float each operation rounded.
ProductDifference(x, y, z, w) ==
  IF T = "int" THEN WrapInt((x * y) - (z * w))
  ELSE SubF(MulF(x, y), MulF(z, w))

\* C5: a.Cross(b) returns r with r.x = a.y*b.z - a.z*b.y, r.y = a.z*b.x -
\* a.x*b.z, r.z = a.x*b.y - a.y*b.x, and leaves a and b as they were; and
\* (1,0,0).Cross((0,1,0)) is (0,0,1).
C5_CrossFormula ==
  [][last'.op = "Cross" =>
       LET r == last'.ret[1]
       IN /\ DOMAIN r = 0..2
          /\ r[0] = ProductDifference(Data[1], other[2], Data[2], other[1])
          /\ r[1] = ProductDifference(Data[2], other[0], Data[0], other[2])
          /\ r[2] = ProductDifference(Data[0], other[1], Data[1], other[0])
          /\ Data' = Data /\ other' = other
          /\ (Data = Vec3(One, Zero(T), Zero(T)) /\ other = Vec3(Zero(T), One, Zero(T)))
               => r = Vec3(Zero(T), Zero(T), One)]_vars

\* (1,0,0).Cross((0,1,0)) has returned (0,0,1).
C5_Witness ==
  /\ last.op = "Cross"
  /\ Data = Vec3(One, Zero(T), Zero(T)) /\ other = Vec3(Zero(T), One, Zero(T))
  /\ last.ret = <<Vec3(Zero(T), Zero(T), One)>>

\* -x in T.
Neg(x) == IF T = "int" THEN WrapInt(-x) ELSE NegF(x)

Finite(x) == T = "int" \/ x.c = "fin"

\* The number a component stands for, times Unit for a float.
Num(x) == IF T = "int" THEN x ELSE x.m

\* a and b are parallel: vectors of numbers whose cross product, over the
\* reals, is the zero vector.
Parallel(a, b) ==
  /\ \A i \in 0..2 : Finite(a[i]) /\ Finite(b[i])
  /\ Num(a[1]) * Num(b[2]) = Num(a[2]) * Num(b[1])
  /\ Num(a[2]) * Num(b[0]) = Num(a[0]) * Num(b[2])
  /\ Num(a[0]) * Num(b[1]) = Num(a[1]) * Num(b[0])

\* No product of a component of a and a component of b overflows to infinity.
ProductsFinite(a, b) ==
  T = "float" => \A i \in 0..2, j \in 0..2 : MulF(a[i], b[j]).c = "fin"

\* a.Cross(b) is -(b.Cross(a)), component by component.
Anticommutes(r) == \A i \in 0..2 : r[i] = Neg(Cross(T, other, Data)[i])

\* C6, as stated: every component of a.Cross(b) is the negation of that of
\* b.Cross(a); so a.Cross(b) is the zero vector when a and b are parallel.
C6_AnticommutativeZeroOnParallel ==
  last.op = "Cross" =>
    /\ Anticommutes(last.ret[1])
    /\ Parallel(Data, other) => last.ret[1] = Vec3(Zero(T), Zero(T), Zero(T))

\* C6, amended: every component of a.Cross(b) is the negation of that of
\* b.Cross(a) (NaN where that is NaN); a.Cross(b) is the zero vector when a and
\* b are parallel and, for a floating T, no product of their components
\* overflows.
C6_AnticommutativeZeroOnParallelFinite ==
  last.op = "Cross" =>
    /\ Anticommutes(last.ret[1])
    /\ Parallel(Data, other) /\ ProductsFinite(Data, other)
         => last.ret[1] = Vec3(Zero(T), Zero(T), Zero(T))

\* Cross has returned the zero vector for two parallel float vectors, neither
\* zero nor equal to the other.
C6_Witness ==
  /\ last.op = "Cross" /\ T = "float"
  /\ Parallel(Data, other) /\ ProductsFinite(Data, other)
  /\ \E i \in 0..2 : ~IsZero(Data[i])
  /\ \E i \in 0..2 : ~IsZero(other[i])
  /\ Data # other
  /\ last.ret = <<Vec3(Zero(T), Zero(T), Zero(T))>>

BeyondMant == 2^MantBits + 1

CastVals(t) ==
  IF t = "int" THEN {IntMin, -1, 0, 3, BeyondMant, IntMax}
  ELSE IF t = "float"
  THEN {FNaN, FInf(1), Fin(0), Fin(1), Fin(-3 * Unit), Fin(MaxMant)}
  ELSE {DNaN, DFin(0, 1), DFin(-3, 1), DFin(3, 2), DFin(BeyondMant, 1),
        DFin(1, 2 * Unit)}

\* v.Cast<TR>()
DoCast ==
  /\ \E tr \in CastTypes :
       \E r \in Cast(T, tr, Data) : last' = Call("Cast", <<tr>>, <<r>>)
  /\ UNCHANGED <<Data, aborted>> /\ Frame

\* v.Cast<TR>().Cast<T>(): Cast<T>() of the vector v.Cast<TR>() returned.
DoCastOfCast ==
  /\ last.op = "Cast"
  /\ \E r \in Cast(last.arg[1], T, last.ret[1]) :
       last' = Call("Cast.Cast", <<last.arg[1], last.ret[1]>>, <<r>>)
  /\ UNCHANGED <<Data, aborted>> /\ Frame

InitCast ==
  /\ T \in CastTypes
  /\ Size \in 1..MaxSize
  /\ NDEBUG = FALSE
  /\ Data \in [0..(Size - 1) -> CastVals(T)]
  /\ other = Data
  /\ last = Call("vtkVector(init)", <<Data>>, <<>>)
  /\ aborted = FALSE

NextCast == DoCast \/ DoCastOfCast

SpecCast == InitCast /\ [][NextCast]_vars

(***************************************************************************)
(* Claims about Cast, checked under SpecCast.                               *)
(***************************************************************************)
\* The number a value x of type t stands for, as an exact real.
ValueOf(t, x) == IF t = "double" THEN x ELSE ToDouble(t, x)

\* The type u has a value that is exactly the real (or infinity, or NaN) d.
RepresentableIn(u, d) ==
  IF u = "double" THEN TRUE
  ELSE IF u = "int"
  THEN /\ d.c = "fin"
       /\ d.n % d.d = 0
       /\ (d.n \div d.d) \in IntMin..IntMax
  ELSE \/ d.c \in {"nan", "inf"}
       \/ /\ d.c = "fin"
          /\ (d.n * Unit) % d.d = 0
          /\ Abs((d.n * Unit) \div d.d) \in FloatMants

\* Two values of type t are the same number.
SameValue(t, x, y) == IF t = "double" THEN SameD(x, y) ELSE x = y

\* Every component of v (of type t) is exactly representable in t and in u.
Lossless(t, u, v) ==
  \A i \in DOMAIN v :
    /\ RepresentableIn(t, ValueOf(t, v[i]))
    /\ RepresentableIn(u, ValueOf(t, v[i]))

\* C11: when every component of v is exactly representable in T and in U,
\* v.Cast<U>().Cast<T>() has the Size of v and the component of v at every
\* index; Cast leaves v as it was.
C11_CastRoundTrip ==
  [][/\ (last'.op = "Cast" =>
           /\ Data' = Data
           /\ DOMAIN last'.ret[1] = DOMAIN Data)
      /\ (last'.op = "Cast.Cast" /\ Lossless(T, last'.arg[1], Data) =>
           /\ Data' = Data
           /\ DOMAIN last'.ret[1] = DOMAIN Data
           /\ GetSize(last'.ret[1]) = Size
           /\ \A i \in DOMAIN Data :
                SameValue(T, last'.ret[1][i], Data[i]))]_vars

\* An int vector with a component other than 0, every component a float, has
\* been cast to float and back.
C11_Witness ==
  /\ last.op = "Cast.Cast" /\ T = "int" /\ last.arg[1] = "float"
  /\ Lossless(T, "float", Data)
  /\ \E i \in DOMAIN Data : Data[i] # 0
  /\ last.ret = <<Data>>

(***************************************************************************)
(* SpecConcrete: Normalized() and Cross() of the concrete vectors, each     *)
(* constructed from a buffer of values of T.  The floating format stands    *)
(* for float and for double: with T = double every step of Normalize and    *)
(* Cross is the same correctly rounded operation at another precision.      *)
(* No call here contains an assert.                                         *)
(***************************************************************************)
\* vtkVector2i/2f/2d::Normalized() and vtkVector3i/3f/3d::Normalized()
DoConcreteNormalized ==
  /\ \E r \in vtkVectorNormalized(T, Data) :
       last' = Call("vtkVectorNormalized", <<>>, <<r>>)
  /\ UNCHANGED <<Data, aborted>> /\ Frame

\* vtkVector3i/3f/3d::Cross(other)
DoConcreteCross ==
  /\ Size = 3
  /\ last' = Call("vtkVector3Cross", <<>>, <<vtkVector3Cross(T, Data, other)>>)
  /\ UNCHANGED <<Data, aborted>> /\ Frame

InitConcrete ==
  /\ T \in Types
  /\ Size \in {2, 3}
  /\ NDEBUG = FALSE
  /\ Data \in [0..(Size - 1) -> PairVals(T)]
  /\ other \in [0..(Size - 1) -> PairVals(T)]
  /\ last = Call("vtkVector(init)", <<Data>>, <<>>)
  /\ aborted = FALSE

NextConcrete == DoConcreteNormalized \/ DoConcreteCross

SpecConcrete == InitConcrete /\ [][NextConcrete]_vars

(***************************************************************************)
(* Claims about the concrete vectors, checked under SpecConcrete.           *)
(***************************************************************************)
\* The vectors r and g have the same component at every index of the receiver.
SameComponents(r, g) ==
  /\ DOMAIN r = 0..(Size - 1)
  /\ \A i \in 0..(Size - 1) : r[i] = g[i]

\* C12: the concrete Normalized() returns a vector with, at every index, the
\* component of the vector the generic Normalized() returns on the same
\* receiver, and the concrete Cross(other) of a 3D vector one with the
\* components of vtkVector3<T>::Cross(other); neither changes the receiver or
\* the argument.
C12_ConcreteWrappersAddNothing ==
  [][/\ (last'.op = "vtkVectorNormalized" =>
           /\ Data' = Data /\ other' = other
           /\ \E g \in Normalized(T, Data) : SameComponents(last'.ret[1], g))
      /\ (last'.op = "vtkVector3Cross" =>
           /\ Data' = Data /\ other' = other
           /\ SameComponents(last'.ret[1], Cross(T, Data, other)))]_vars

\* The concrete Normalized() has returned, for a float vector, a vector that
\* differs from its receiver and whose first and last components differ.
C12_Witness ==
  /\ last.op = "vtkVectorNormalized" /\ T = "float"
  /\ last.ret # <<Data>>
  /\ last.ret[1][0] # last.ret[1][Size - 1]
  /\ \A i \in 0..(Size - 1) : last.ret[1][i].c = "fin"

====
